---------------------------- MODULE Spec2Model ----------------------------
(***************************************************************************)
(* A model of gobs/typedbuffer (typedbuffer.go): the order-preserving      *)
(* typed encoding of nil, booleans, signed and unsigned 64-bit integers    *)
(* and byte strings, its single-value decoder and the DecodeAll loop.      *)
(*                                                                         *)
(* Bytes are the integers 0..255.  A Go []byte is a sequence of bytes.     *)
(* A 64-bit word (int64 in two's complement, or uint64) is the sequence of *)
(* its 8 bytes, most significant first, so that shifts, masks and the      *)
(* wrap-around of 64-bit arithmetic are exactly those of the program.      *)
(***************************************************************************)
EXTENDS Integers, Sequences, FiniteSets, TLC

VARIABLES
    pc,         \* where the caller stands
    kind,       \* what the caller encodes, or the call it made last
    a, b,       \* the caller's two inputs
    nilFirst,   \* the nil ordering the caller passes to EncodeNils
    encA, encB, \* what the encoder returned for a and for b
    dec,        \* what Decode returned
    input,      \* the buffer handed to Decode or DecodeAll
    strings,    \* DecodeAll's strings flag
    cur,        \* DecodeAll's cursor b
    res,        \* DecodeAll's res
    ret,        \* what DecodeAll returned
    sent,       \* the package-level slices NilFirst, NilLast, True, False, Bytes1, Bytes2, Bytes4
    held        \* the slice the caller got from its last encoder call

inVars == <<kind, a, b, nilFirst>>
loopVars == <<input, strings, cur, res, ret>>
heapVars == <<sent, held>>
vars == <<pc, inVars, encA, encB, dec, loopVars, heapVars>>

(***************************************************************************)
(* Byte arithmetic of the Go code                                          *)
(***************************************************************************)
Byte == 0..255

RECURSIVE BitAnd(_, _)
\* x & y on non-negative integers
BitAnd(x, y) ==
    IF x = 0 \/ y = 0 THEN 0
    ELSE (x % 2) * (y % 2) + 2 * BitAnd(x \div 2, y \div 2)

\* x | y on non-negative integers
BitOr(x, y) == x + y - BitAnd(x, y)

\* byte(x): conversion to an 8-bit unsigned value
ToByte(x) == x % 256

\* s[lo:] and s[0:n] of a slice whose bounds the caller has checked
SliceFrom(s, lo) == SubSeq(s, lo + 1, Len(s))
SliceTo(s, n) == SubSeq(s, 1, n)

\* a sequence of n copies of byte c
Fill(c, n) == [j \in 1..n |-> c]

(***************************************************************************)
(* 64-bit words                                                            *)
(***************************************************************************)
WordBytes == 8

\* int64(0) / uint64(0) and int64(-1)
WordZero == Fill(0, WordBytes)
WordMinusOne == Fill(255, WordBytes)

\* byte(v >> bits): the byte of v that holds bits [bits, bits+8)
ByteAt(v, bits) == v[WordBytes - (bits \div 8)]

\* (v >> bits) != 0
ShrNonZero(v, bits) == \E j \in 1..(WordBytes - (bits \div 8)) : v[j] # 0

\* (l << 8) | b on a 64-bit word: the top byte is shifted out
ShiftInByte(l, byt) == Tail(l) \o <<byt>>

\* the word of a byte (int64(k), uint64(k) for a byte k)
WordOfByte(k) == Fill(0, WordBytes - 1) \o <<k>>

\* x | y on two words
WordOr(x, y) == [j \in 1..WordBytes |-> BitOr(x[j], y[j])]

RECURSIVE SeqLess(_, _)
\* bytes.Compare(x, y) < 0: unsigned lexicographic order, a proper prefix first
SeqLess(x, y) ==
    IF Len(y) = 0 THEN FALSE
    ELSE IF Len(x) = 0 THEN TRUE
    ELSE IF x[1] # y[1] THEN x[1] < y[1]
    ELSE SeqLess(Tail(x), Tail(y))

\* x < y on uint64
Uint64Less(x, y) == SeqLess(x, y)

\* the word with its sign bit flipped: maps int64 order onto uint64 order
FlipSign(x) == <<(x[1] + 128) % 256>> \o Tail(x)

\* x < y on int64 (two's complement)
Int64Less(x, y) == SeqLess(FlipSign(x), FlipSign(y))

RECURSIVE NatWord(_, _)
\* the n low bytes, most significant first, of a natural number
NatWord(n, len) ==
    IF len = 0 THEN <<>> ELSE NatWord(n \div 256, len - 1) \o <<n % 256>>

\* the 64-bit word of a small integer constant (two's complement)
WordOf(n) ==
    IF n >= 0 THEN NatWord(n, WordBytes)
    ELSE [j \in 1..WordBytes |-> 255 - NatWord(-n - 1, WordBytes)[j]]

(***************************************************************************)
(* Tag constants (typedbuffer.go, const block)                             *)
(***************************************************************************)
BB_POSITIVE == 128
BB_NEGATIVE == 0
BB_TYPE_MASK == 240

BB_NIL_FIRST == 0
BB_NIL_LAST == 255

BB_BOOLEAN == 14
BB_BOOLEAN_FALSE == BitOr(BB_BOOLEAN, 0)
BB_BOOLEAN_TRUE == BitOr(BB_BOOLEAN, 1)

BB_BYTES == 16
BB_BYTES_LEN_1 == 77
BB_BYTES_LEN_2 == 78
BB_BYTES_LEN_4 == 78

BB_INT == 96
BB_INT_POSITIVE_VALUE == BitOr(BitOr(BB_INT, BB_POSITIVE), 8)
BB_INT_NEGATIVE_VALUE == BitOr(BB_INT, BB_NEGATIVE)
BB_SMALL_POSITIVE == BitOr(BB_INT, BB_POSITIVE)
BB_SMALL_NEGATIVE == BitOr(BitOr(BB_INT, BB_NEGATIVE), 8)

BB_INT_MASK == BB_INT_POSITIVE_VALUE

SMALL_NEGATIVE_INT == -8
SMALL_POSITIVE_INT == 7
SMALL_INT_MASK == 7
\* ^SMALL_INT_MASK as an int64: ...FFF8
SMALL_NEG_MASK == WordOf(-SMALL_INT_MASK - 1)

MIN_SMALL_POSITIVE == BitOr(BB_SMALL_POSITIVE, BitAnd(0, SMALL_INT_MASK))
MAX_SMALL_POSITIVE == BitOr(BB_SMALL_POSITIVE, BitAnd(SMALL_POSITIVE_INT, SMALL_INT_MASK))

\* SMALL_NEGATIVE_INT & SMALL_INT_MASK and -1 & SMALL_INT_MASK, on the low byte
MIN_SMALL_NEGATIVE ==
    BitOr(BB_SMALL_NEGATIVE, BitAnd(WordOf(SMALL_NEGATIVE_INT)[WordBytes], SMALL_INT_MASK))
MAX_SMALL_NEGATIVE ==
    BitOr(BB_SMALL_NEGATIVE, BitAnd(WordOf(-1)[WordBytes], SMALL_INT_MASK))

BB_UINT == 128
BB_UINT_VAR == 144
BB_UINT_MASK == 224

SMALL_UINT == 16
SMALL_UINT_MASK == 31

MIN_SMALL_UINT == BB_UINT
MAX_SMALL_UINT == BB_UINT + SMALL_UINT

\* the error values
NoError == "nil"
NoEncoding == "no encoding"
EmptyBufferError == "empty buffer"
CorruptedBufferError == "corrupted buffer"

\* the package-level slices as the program starts
InitSentinels ==
    [NilFirst |-> <<BB_NIL_FIRST>>, NilLast |-> <<BB_NIL_LAST>>,
     True |-> <<BB_BOOLEAN_TRUE>>, False |-> <<BB_BOOLEAN_FALSE>>,
     Bytes1 |-> <<BB_BYTES_LEN_1>>, Bytes2 |-> <<BB_BYTES_LEN_2>>,
     Bytes4 |-> <<BB_BYTES_LEN_4>>]

(***************************************************************************)
(* Encoders                                                                *)
(***************************************************************************)
\* the slice EncodeBool returns: the shared package-level slice itself
EncodeBool(bv) == IF bv THEN sent.True ELSE sent.False

\* EncodeNil with the two sentinels exchanged
EncodeNil_Swapped(first) == IF first THEN sent.NilLast ELSE sent.NilFirst

\* the slice EncodeNil returns: the shared package-level slice itself
EncodeNil(first) == IF first THEN sent.NilFirst ELSE sent.NilLast

RECURSIVE NegScan(_, _)
\* compactInt64, negative branch: skip the leading 0xff bytes
NegScan(v, bits) ==
    IF bits > 0 /\ ByteAt(v, bits) = 255 THEN NegScan(v, bits - 8) ELSE bits

RECURSIVE PosScan_StopsAtTwoBytes(_, _)
\* the scan with the loop bound bits > 8: never compacts to one byte
PosScan_StopsAtTwoBytes(v, bits) ==
    IF bits > 8 /\ ~ShrNonZero(v, bits) THEN PosScan_StopsAtTwoBytes(v, bits - 8) ELSE bits

RECURSIVE PosScan(_, _)
\* compactInt64 (positive branch) and compactUint64: skip the leading zero bytes
PosScan(v, bits) ==
    IF bits > 0 /\ ~ShrNonZero(v, bits) THEN PosScan(v, bits - 8) ELSE bits

RECURSIVE EmitBytes(_, _)
\* for ; bits >= 0; bits -= 8 { bb = append(bb, byte(v>>uint(bits))) }
EmitBytes(v, bits) ==
    IF bits >= 0 THEN <<ByteAt(v, bits)>> \o EmitBytes(v, bits - 8) ELSE <<>>

\* the negative tag computed as the positive one is: typ + bits/8
NegativeTag_Symmetric(typ, bits) == ToByte(typ + ToByte(bits \div 8))

\* the tag byte compactInt64 writes for a negative value
NegativeTag(typ, bits) == ToByte(typ + (7 - ToByte(bits \div 8)))

\* the tag byte compactInt64 writes for a positive value
PositiveTag(typ, bits) == ToByte(typ + ToByte(bits \div 8))

compactInt64(v, typ) ==
    IF BitAnd(typ, BB_TYPE_MASK) = BB_INT_NEGATIVE_VALUE
    THEN LET bits == NegScan(v, 64 - 8)
         IN  <<NegativeTag(typ, bits)>> \o EmitBytes(v, bits)
    ELSE LET bits == PosScan(v, 64 - 8)
         IN  <<PositiveTag(typ, bits)>> \o EmitBytes(v, bits)

\* the tag byte compactUint64 writes
UintTag(bits) == ToByte(BB_UINT_VAR + ToByte(bits \div 8) + 1)

compactUint64(u) ==
    LET bits == PosScan(u, 64 - 8)
    IN  <<UintTag(bits)>> \o EmitBytes(u, bits)

EncodeInt64(i) ==
    IF Int64Less(i, WordOf(SMALL_NEGATIVE_INT))
    THEN compactInt64(i, BB_INT_NEGATIVE_VALUE)
    ELSE IF Int64Less(WordOf(SMALL_POSITIVE_INT), i)
    THEN compactInt64(i, BB_INT_POSITIVE_VALUE)
    ELSE IF ~Int64Less(i, WordZero)
    THEN <<ToByte(BB_SMALL_POSITIVE + BitAnd(i[WordBytes], SMALL_INT_MASK))>>
    ELSE <<ToByte(BB_SMALL_NEGATIVE + BitAnd(i[WordBytes], SMALL_INT_MASK))>>

\* int is 64 bits wide: int64(i) keeps the word
EncodeInt(i) == EncodeInt64(i)

EncodeUint64(u) ==
    IF ~Uint64Less(WordOf(SMALL_UINT), u)
    THEN <<ToByte(BB_UINT + u[WordBytes])>>
    ELSE compactUint64(u)

EncodeUint(u) == EncodeUint64(u)

EncodeBytes(bb) ==
    LET l == Len(bb)
    IN  IF l <= 60
        THEN <<BitOr(BB_BYTES, ToByte(l))>> \o bb
        ELSE IF l <= 61 + 255
        THEN sent.Bytes1 \o <<ToByte(l - 61)>> \o bb
        ELSE IF l <= 317 + 65535
        THEN sent.Bytes2 \o <<ToByte((l - 317) \div 256), ToByte(l - 317)>> \o bb
        \* l <= 65851 + 0xffffffff holds of every length a sequence here can have
        ELSE sent.Bytes4 \o <<ToByte((l - 65851) \div 16777216),
                              ToByte((l - 65851) \div 65536),
                              ToByte((l - 65851) \div 256),
                              ToByte(l - 65851)>> \o bb

(***************************************************************************)
(* Values of type interface{}                                              *)
(***************************************************************************)
NilValue == [type |-> "nil"]
BoolValue(x) == [type |-> "bool", bool |-> x]
IntValue(w) == [type |-> "int", int |-> w]
Int64Value(w) == [type |-> "int64", int |-> w]
Uint64Value(w) == [type |-> "uint64", uint |-> w]
Uint64sValue(ws) == [type |-> "[]uint64", uints |-> ws]
BytesValue(s) == [type |-> "[]byte", bytes |-> s]
StringValue(s) == [type |-> "string", bytes |-> s]
\* a value of a type with no case in EncodeNils
FloatValue == [type |-> "float64"]

RECURSIVE EncodeUint64s(_)
\* for _, u := range t { b = append(b, EncodeUint64(u)...) }
EncodeUint64s(us) ==
    IF us = <<>> THEN <<>> ELSE EncodeUint64(Head(us)) \o EncodeUint64s(Tail(us))

\* whether the type switch of EncodeNils has a case for v
HasEncoding(v) ==
    v.type \in {"nil", "bool", "int", "int64", "uint64", "[]uint64", "[]byte", "string"}

\* the bytes one iteration of EncodeNils appends for v
EncodeValue(first, v) ==
    CASE v.type = "nil" -> EncodeNil(first)
      [] v.type = "bool" -> EncodeBool(v.bool)
      [] v.type = "int" -> EncodeInt(v.int)
      [] v.type = "int64" -> EncodeInt64(v.int)
      [] v.type = "uint64" -> EncodeUint64(v.uint)
      [] v.type = "[]uint64" -> EncodeUint64s(v.uints)
      [] v.type = "[]byte" -> EncodeBytes(v.bytes)
      [] v.type = "string" -> EncodeBytes(v.bytes)

RECURSIVE EncodeLoop(_, _, _)
\* the loop of EncodeNils from buffer bb on: ([]byte, error)
EncodeLoop(first, bb, values) ==
    IF values = <<>> THEN [bytes |-> bb, err |-> NoError]
    ELSE IF ~HasEncoding(Head(values)) THEN [bytes |-> <<>>, err |-> NoEncoding]
    ELSE EncodeLoop(first, bb \o EncodeValue(first, Head(values)), Tail(values))

EncodeNils(first, values) == EncodeLoop(first, <<>>, values)

Encode(values) == EncodeNils(TRUE, values)

(***************************************************************************)
(* Decoder.  A result is (value, next, error); a nil slice is the empty    *)
(* sequence.  A slice expression out of range is Go's run-time panic.      *)
(***************************************************************************)
Result(v, nx, e) == [val |-> v, next |-> nx, err |-> e]
Corrupted == Result(NilValue, <<>>, CorruptedBufferError)
Panic == Result(NilValue, <<>>, "panic: slice bounds out of range")

\* next[0:n] and next[n:] under Go's bounds check
SplitAt(next, n) ==
    IF n > Len(next) THEN [panic |-> TRUE, head |-> <<>>, rest |-> <<>>]
    ELSE [panic |-> FALSE, head |-> SliceTo(next, n), rest |-> SliceFrom(next, n)]

RECURSIVE ShiftInAll(_, _)
\* for _, b := range bb { l = (l << 8) | b }
ShiftInAll(l, bb) ==
    IF bb = <<>> THEN l ELSE ShiftInAll(ShiftInByte(l, Head(bb)), Tail(bb))

\* uncompactInt64 with the accumulator always starting at 0: no sign extension
uncompactInt64_NoSignExtension(bb, positive) == ShiftInAll(WordZero, bb)

uncompactInt64(bb, positive) ==
    ShiftInAll(IF positive THEN WordZero ELSE WordMinusOne, bb)

uncompactUint64(bb) == ShiftInAll(WordZero, bb)

\* case k >= BB_BYTES && k < BB_BYTES_LEN_1
DecodeBytesDirect(k, next) ==
    LET n == k - BB_BYTES
        s == SplitAt(next, n)
    IN  IF Len(next) < n THEN Corrupted
        ELSE IF s.panic THEN Panic
        ELSE Result(BytesValue(s.head), s.rest, NoError)

\* the length the 0x4D case reads from its extension byte
BytesLen1(k) == k + 62

\* case k == BB_BYTES_LEN_1
DecodeBytesLen1(next) ==
    IF Len(next) < 1 THEN Corrupted
    ELSE LET n == BytesLen1(next[1])
             s == SplitAt(SliceFrom(next, 1), n)
         IN  IF Len(SliceFrom(next, 1)) < n THEN Corrupted
             ELSE IF s.panic THEN Panic
             ELSE Result(BytesValue(s.head), s.rest, NoError)

\* the length the 0x4E case reads from its two extension bytes
BytesLen2(k1, k2) == k1 * 256 + k2 + 318

\* case k == BB_BYTES_LEN_2
DecodeBytesLen2(next) ==
    IF Len(next) < 2 THEN Corrupted
    ELSE LET n == BytesLen2(next[1], next[2])
             s == SplitAt(SliceFrom(next, 2), n)
         IN  IF Len(SliceFrom(next, 2)) < n THEN Corrupted
             ELSE IF s.panic THEN Panic
             ELSE Result(BytesValue(s.head), s.rest, NoError)

\* case (k & BB_INT_MASK) == BB_INT_POSITIVE_VALUE
DecodePositive(k, next) ==
    LET n == BitAnd(k, 7) + 1
        s == SplitAt(next, n)
    IN  IF Len(next) < n THEN Corrupted
        ELSE IF s.panic THEN Panic
        ELSE Result(Int64Value(uncompactInt64(s.head, TRUE)), s.rest, NoError)

\* case (k & BB_INT_MASK) == BB_INT_NEGATIVE_VALUE
DecodeNegative(k, next) ==
    LET n == 8 - BitAnd(k, 7)
        s == SplitAt(next, n)
    IN  IF Len(next) < n THEN Corrupted
        ELSE IF s.panic THEN Panic
        ELSE Result(Int64Value(uncompactInt64(s.head, FALSE)), s.rest, NoError)

\* the unsigned case without its len(next) < n check
DecodeUintVar_NoLengthCheck(k, next) ==
    LET n == BitAnd(k, 15)
        s == SplitAt(next, n)
    IN  IF n = 0 \/ n > 8 THEN Corrupted
        ELSE IF s.panic THEN Panic
        ELSE Result(Uint64Value(uncompactUint64(s.head)), s.rest, NoError)

\* case (k & BB_UINT_MASK) == BB_UINT
DecodeUintVar(k, next) ==
    LET n == BitAnd(k, 15)
        s == SplitAt(next, n)
    IN  IF n = 0 \/ n > 8 \/ Len(next) < n THEN Corrupted
        ELSE IF s.panic THEN Panic
        ELSE Result(Uint64Value(uncompactUint64(s.head)), s.rest, NoError)

\* the switch of Decode on the tag k, cases in source order
DecodeTag(k, next) ==
    IF k = BB_NIL_FIRST \/ k = BB_NIL_LAST THEN Result(NilValue, next, NoError)
    ELSE IF k = BB_BOOLEAN_FALSE THEN Result(BoolValue(FALSE), next, NoError)
    ELSE IF k = BB_BOOLEAN_TRUE THEN Result(BoolValue(TRUE), next, NoError)
    ELSE IF k >= BB_BYTES /\ k < BB_BYTES_LEN_1 THEN DecodeBytesDirect(k, next)
    ELSE IF k = BB_BYTES_LEN_1 THEN DecodeBytesLen1(next)
    ELSE IF k = BB_BYTES_LEN_2 THEN DecodeBytesLen2(next)
    ELSE IF k >= MIN_SMALL_POSITIVE /\ k <= MAX_SMALL_POSITIVE
    THEN Result(Int64Value(WordOfByte(BitAnd(k, SMALL_INT_MASK))), next, NoError)
    ELSE IF k >= MIN_SMALL_NEGATIVE /\ k <= MAX_SMALL_NEGATIVE
    THEN Result(Int64Value(WordOr(WordOfByte(BitAnd(k, SMALL_INT_MASK)), SMALL_NEG_MASK)),
                next, NoError)
    ELSE IF BitAnd(k, BB_INT_MASK) = BB_INT_POSITIVE_VALUE THEN DecodePositive(k, next)
    ELSE IF BitAnd(k, BB_INT_MASK) = BB_INT_NEGATIVE_VALUE THEN DecodeNegative(k, next)
    ELSE IF k >= MIN_SMALL_UINT /\ k <= MAX_SMALL_UINT
    THEN Result(Uint64Value(WordOfByte(BitAnd(k, SMALL_UINT_MASK))), next, NoError)
    ELSE IF BitAnd(k, BB_UINT_MASK) = BB_UINT THEN DecodeUintVar(k, next)
    ELSE Corrupted

Decode(bb) ==
    IF Len(bb) = 0 THEN Result(NilValue, <<>>, EmptyBufferError)
    ELSE DecodeTag(bb[1], SliceFrom(bb, 1))

\* if strings { if sb, ok := v.([]byte); ok { v = string(sb) } }
AsString(str, v) ==
    IF str /\ v.type = "[]byte" THEN StringValue(v.bytes) ELSE v

RECURSIVE DecodeAllLoop(_, _, _)
\* the loop of DecodeAll from cursor bb with res decoded so far: ([]interface{}, error)
DecodeAllLoop(str, bb, sofar) ==
    LET d == Decode(bb)
    IN  IF d.err = EmptyBufferError THEN [res |-> sofar, err |-> NoError]
        ELSE IF d.err # NoError THEN [res |-> <<>>, err |-> d.err]
        ELSE DecodeAllLoop(str, d.next, Append(sofar, AsString(str, d.val)))

DecodeAll(str, bb) == DecodeAllLoop(str, bb, <<>>)

(***************************************************************************)
(* Inputs of the integer encoders: 64-bit words around every payload-size  *)
(* boundary, around zero, and the byte patterns of the repository's tests  *)
(***************************************************************************)
IntDelta == 2
IntSmallRange == 20

RECURSIVE WordInc(_, _)
\* v + 1 with 64-bit wrap-around, from byte j down to the top byte
WordInc(v, j) ==
    IF j = 0 THEN v
    ELSE IF v[j] = 255 THEN WordInc([v EXCEPT ![j] = 0], j - 1)
    ELSE [v EXCEPT ![j] = v[j] + 1]

RECURSIVE WordDec(_, _)
\* v - 1 with 64-bit wrap-around
WordDec(v, j) ==
    IF j = 0 THEN v
    ELSE IF v[j] = 0 THEN WordDec([v EXCEPT ![j] = 255], j - 1)
    ELSE [v EXCEPT ![j] = v[j] - 1]

RECURSIVE WordAdd(_, _)
\* v + d for a small integer d
WordAdd(v, d) ==
    IF d = 0 THEN v
    ELSE IF d > 0 THEN WordAdd(WordInc(v, WordBytes), d - 1)
    ELSE WordAdd(WordDec(v, WordBytes), d + 1)

\* v << (8 * m)
WordShl(v, m) == SubSeq(v, m + 1, WordBytes) \o Fill(0, m)

\* v >> (8 * m), logical
WordShr(v, m) == Fill(0, m) \o SubSeq(v, 1, WordBytes - m)

\* ^v
WordNot(v) == [j \in 1..WordBytes |-> 255 - v[j]]

\* 0x1122334455667788 (TestUint) and its right shifts
TestPattern == <<17, 34, 51, 68, 85, 102, 119, 136>>

MinInt64 == <<128>> \o Fill(0, WordBytes - 1)
MaxInt64 == <<127>> \o Fill(255, WordBytes - 1)
MaxUint64 == Fill(255, WordBytes)

Words ==
    {WordAdd(WordShl(WordOf(s), m), d) :
        s \in {1, -1, 128}, m \in 0..(WordBytes - 1), d \in (-IntDelta)..IntDelta}
    \cup {WordOf(n) : n \in (-IntSmallRange)..IntSmallRange}
    \cup {WordShr(TestPattern, m) : m \in 0..(WordBytes - 1)}
    \cup {WordNot(WordShr(TestPattern, m)) : m \in 0..(WordBytes - 1)}

(***************************************************************************)
(* State machine of the integer encoders: a caller encodes two integers of *)
(* one kind and decodes the first encoding                                 *)
(***************************************************************************)
NoResult == Result(NilValue, <<>>, "not called")
NoReturn == [res |-> <<>>, err |-> "not called"]
NoBuffer == [base |-> "none", bytes |-> <<>>]

\* the variables of the DecodeAll loop, not in use
DecodeAllIdle ==
    /\ input = <<>> /\ strings = FALSE /\ cur = <<>> /\ res = <<>> /\ ret = NoReturn

InitInt ==
    /\ pc = "start"
    /\ kind \in {"int64", "uint64"}
    /\ a \in Words
    /\ b \in Words
    /\ nilFirst = TRUE
    /\ encA = <<>> /\ encB = <<>> /\ dec = NoResult
    /\ DecodeAllIdle
    /\ sent = InitSentinels /\ held = NoBuffer

CallEncodeInt64 ==
    /\ pc = "start" /\ kind = "int64"
    /\ encA' = EncodeInt64(a)
    /\ encB' = EncodeInt64(b)
    /\ pc' = "encoded"
    /\ UNCHANGED <<inVars, dec, loopVars, heapVars>>

CallEncodeUint64 ==
    /\ pc = "start" /\ kind = "uint64"
    /\ encA' = EncodeUint64(a)
    /\ encB' = EncodeUint64(b)
    /\ pc' = "encoded"
    /\ UNCHANGED <<inVars, dec, loopVars, heapVars>>

CallDecode ==
    /\ pc = "encoded"
    /\ dec' = Decode(encA)
    /\ pc' = "decoded"
    /\ UNCHANGED <<inVars, encA, encB, loopVars, heapVars>>

NextInt == CallEncodeInt64 \/ CallEncodeUint64 \/ CallDecode

SpecInt == InitInt /\ [][NextInt]_vars

(***************************************************************************)
(* Claims about the integer encoders                                       *)
(***************************************************************************)
\* C1: decoding the encoding of a signed (unsigned) 64-bit integer returns
\* that integer as an int64 (uint64), an empty remainder and no error.
C1_IntRoundTrip ==
    pc = "decoded" =>
        /\ kind = "int64" => dec = Result(Int64Value(a), <<>>, NoError)
        /\ kind = "uint64" => dec = Result(Uint64Value(a), <<>>, NoError)

\* a compacted negative integer (-257) and the largest unsigned integer came back
C1_Witness ==
    /\ pc = "decoded"
    /\ \/ kind = "int64" /\ a = WordOf(-257) /\ dec.val = Int64Value(WordOf(-257))
       \/ kind = "uint64" /\ a = MaxUint64 /\ dec.val = Uint64Value(MaxUint64)

\* the order of the inputs a and b within their kind
InputLess(x, y) == IF kind = "int64" THEN Int64Less(x, y) ELSE Uint64Less(x, y)

\* C3: for integers a < b of one kind (signed, or unsigned), the encoding of
\* a is strictly below the encoding of b in unsigned lexicographic byte order.
C3_IntOrder ==
    (pc = "encoded" /\ InputLess(a, b)) => SeqLess(encA, encB)

\* two compacted negatives with payloads of different lengths, in order
C3_Witness ==
    /\ pc = "encoded" /\ kind = "int64"
    /\ a = WordOf(-257) /\ b = WordOf(-9)
    /\ Len(encA) = 3 /\ Len(encB) = 2
    /\ SeqLess(encA, encB)

\* 256^n and -(256^n) as 64-bit words, 1 <= n <= 7
Pow256(n) == Fill(0, WordBytes - n - 1) \o <<1>> \o Fill(0, n)
NegPow256(n) == Fill(255, WordBytes - n) \o Fill(0, n)

\* u < 256^n, and i >= -(256^n); both hold of every 64-bit value when n = 8
FitsUnsigned(v, n) == n = WordBytes \/ Uint64Less(v, Pow256(n))
FitsNegative(v, n) == n = WordBytes \/ ~Int64Less(v, NegPow256(n))

\* the smallest payload size in which v fits
MinUnsigned(v) ==
    CHOOSE n \in 1..WordBytes :
        FitsUnsigned(v, n) /\ \A m \in 1..(n - 1) : ~FitsUnsigned(v, m)
MinNegative(v) ==
    CHOOSE n \in 1..WordBytes :
        FitsNegative(v, n) /\ \A m \in 1..(n - 1) : ~FitsNegative(v, m)

\* the n low bytes of v, most significant first
LowBytes(v, n) == SubSeq(v, WordBytes - n + 1, WordBytes)

\* C9: EncodeInt64(i) is the byte 0xE0+i for 0 <= i <= 7 and 0x70+i for
\* -8 <= i <= -1; for i > 7 it is 0xE8+(n-1) and the n low bytes of i, n the
\* smallest size with i < 256^n; for i < -8 it is 0x60+(8-n) and the n low
\* bytes, n the smallest size with i >= -(256^n); EncodeUint64(u) is 0x80+u
\* for u <= 16 and otherwise 0x90+n and the n low bytes, n the smallest size
\* with u < 256^n.
C9_IntLayout ==
    pc = "encoded" =>
        /\ kind = "int64" =>
            /\ \A n \in 0..7 : a = WordOf(n) => encA = <<224 + n>>
            /\ \A n \in (-8)..(-1) : a = WordOf(n) => encA = <<112 + n>>
            /\ Int64Less(WordOf(7), a) =>
                  encA = <<232 + (MinUnsigned(a) - 1)>> \o LowBytes(a, MinUnsigned(a))
            /\ Int64Less(a, WordOf(-8)) =>
                  encA = <<96 + (8 - MinNegative(a))>> \o LowBytes(a, MinNegative(a))
        /\ kind = "uint64" =>
            /\ \A n \in 0..16 : a = WordOf(n) => encA = <<128 + n>>
            /\ Uint64Less(WordOf(16), a) =>
                  encA = <<144 + MinUnsigned(a)>> \o LowBytes(a, MinUnsigned(a))

\* 256 took the two-byte positive band, -256 the one-byte negative band
C9_Witness ==
    /\ pc = "encoded" /\ kind = "int64"
    /\ a = WordOf(256) /\ encA = <<233, 1, 0>>
    /\ b = WordOf(-256) /\ encB = <<103, 0>>

(***************************************************************************)
(* State machine of the byte-string encoder: a caller encodes two byte     *)
(* strings and decodes the first encoding                                  *)
(***************************************************************************)
MaxDirectLen == 62

\* the lengths tried: all of 0..MaxDirectLen (the direct band is 0..60) and
\* the lengths around the end of the 1-extension-byte band
StringLens == 0..MaxDirectLen \cup {61 + 255, 317, 318}

\* the bytes strings are made of
StringBytes == {0, 255}

\* strings of one repeated byte, and those with another last byte
ByteStrings ==
    {Fill(c, n) : c \in StringBytes, n \in StringLens}
    \cup {Fill(c, n - 1) \o <<d>> : c \in StringBytes, d \in StringBytes, n \in StringLens \ {0}}

InitBytes ==
    /\ pc = "start"
    /\ kind = "[]byte"
    /\ a \in ByteStrings
    /\ b \in ByteStrings
    /\ nilFirst = TRUE
    /\ encA = <<>> /\ encB = <<>> /\ dec = NoResult
    /\ DecodeAllIdle
    /\ sent = InitSentinels /\ held = NoBuffer

CallEncodeBytes ==
    /\ pc = "start" /\ kind = "[]byte"
    /\ encA' = EncodeBytes(a)
    /\ encB' = EncodeBytes(b)
    /\ pc' = "encoded"
    /\ UNCHANGED <<inVars, dec, loopVars, heapVars>>

NextBytes == CallEncodeBytes \/ CallDecode

SpecBytes == InitBytes /\ [][NextBytes]_vars

\* C2: decoding the encoding of a byte string of any length in the direct,
\* 1-extension-byte and 2-extension-byte bands returns that byte string, an
\* empty remainder and no error.
C2_BytesRoundTrip ==
    pc = "decoded" => dec = Result(BytesValue(a), <<>>, NoError)

\* C2 restricted to the direct band, lengths 0..60
C2_DirectBandRoundTrip ==
    (pc = "decoded" /\ Len(a) <= 60) => dec = Result(BytesValue(a), <<>>, NoError)

\* C2 restricted to the 1- and 2-extension-byte bands
C2_ExtensionBandRoundTrip ==
    (pc = "decoded" /\ Len(a) > 60) => dec = Result(BytesValue(a), <<>>, NoError)

\* s precedes t in length-then-content order
LengthThenContentLess(s, t) ==
    \/ Len(s) < Len(t)
    \/ Len(s) = Len(t) /\ SeqLess(s, t)

\* C4: the encoding of s is strictly below the encoding of t in unsigned
\* lexicographic byte order exactly when s precedes t in length-then-content
\* order.
C4_BytesOrder ==
    pc = "encoded" => (SeqLess(encA, encB) <=> LengthThenContentLess(a, b))

(***************************************************************************)
(* State machine of the tuple encoder: a caller encodes two value lists    *)
(* with Encode (nil first) or EncodeNils                                   *)
(***************************************************************************)
MaxTuple == 2

\* the values tuples are made of
TupleValues ==
    {NilValue, BoolValue(FALSE), BoolValue(TRUE), FloatValue}
    \cup {IntValue(WordOf(n)) : n \in {-257, 8}}
    \cup {Int64Value(WordOf(-1))}
    \cup {Uint64Value(WordOf(n)) : n \in {16, 17}}

\* the category of a value: Encode's callers put one category in a position
Category(v) ==
    CASE v.type = "nil" -> "nil"
      [] v.type = "bool" -> "boolean"
      [] v.type \in {"int", "int64"} -> "signed"
      [] v.type = "uint64" -> "unsigned"
      [] OTHER -> v.type

Tuples == UNION {[1..n -> TupleValues] : n \in 0..MaxTuple}

\* corresponding positions hold one category, or nil
SameCategories(x, y) ==
    \A j \in 1..Len(x) :
        j <= Len(y) =>
            \/ Category(x[j]) = Category(y[j])
            \/ Category(x[j]) = "nil"
            \/ Category(y[j]) = "nil"

InitTuple ==
    /\ pc = "start"
    /\ kind = "tuple"
    /\ a \in Tuples
    /\ b \in Tuples
    /\ SameCategories(a, b)
    /\ nilFirst \in BOOLEAN
    /\ encA = <<>> /\ encB = <<>> /\ dec = NoResult
    /\ DecodeAllIdle
    /\ sent = InitSentinels /\ held = NoBuffer

CallEncode ==
    /\ pc = "start" /\ kind = "tuple" /\ nilFirst
    /\ encA' = Encode(a)
    /\ encB' = Encode(b)
    /\ pc' = "encoded"
    /\ UNCHANGED <<inVars, dec, loopVars, heapVars>>

CallEncodeNils ==
    /\ pc = "start" /\ kind = "tuple"
    /\ encA' = EncodeNils(nilFirst, a)
    /\ encB' = EncodeNils(nilFirst, b)
    /\ pc' = "encoded"
    /\ UNCHANGED <<inVars, dec, loopVars, heapVars>>

NextTuple == CallEncode \/ CallEncodeNils

SpecTuple == InitTuple /\ [][NextTuple]_vars

\* the tuple holds only nil, booleans, signed and unsigned integers
Ordered(x) ==
    \A j \in 1..Len(x) : Category(x[j]) \in {"nil", "boolean", "signed", "unsigned"}

\* x orders before y; nil is below every value when first, above when not
ValueLess(x, y, first) ==
    CASE Category(x) = "nil" /\ Category(y) = "nil" -> FALSE
      [] Category(x) = "nil" -> first
      [] Category(y) = "nil" -> ~first
      [] Category(x) = "boolean" -> ~x.bool /\ y.bool
      [] Category(x) = "signed" -> Int64Less(x.int, y.int)
      [] Category(x) = "unsigned" -> Uint64Less(x.uint, y.uint)

RECURSIVE TupleLess(_, _, _)
\* lexicographic order of value lists, decided at the first differing position
TupleLess(x, y, first) ==
    IF y = <<>> THEN FALSE
    ELSE IF x = <<>> THEN TRUE
    ELSE IF ValueLess(Head(x), Head(y), first) THEN TRUE
    ELSE IF ValueLess(Head(y), Head(x), first) THEN FALSE
    ELSE TupleLess(Tail(x), Tail(y), first)

\* s is a proper prefix of t
ProperPrefix(s, t) == Len(s) < Len(t) /\ SubSeq(t, 1, Len(s)) = s

\* the encoding of each element of a value list on its own
ElementEncodings(x) == [j \in 1..Len(x) |-> EncodeValue(nilFirst, x[j])]

\* C5: for two tuples of nil, booleans, signed and unsigned integers whose
\* corresponding positions hold one category, the byte order of the two
\* encodings is the lexicographic order of the value lists, nil below every
\* value under nil-first and above under nil-last; and no element's encoding
\* is a proper prefix of another element's encoding.
C5_TupleOrder ==
    (pc = "encoded" /\ Ordered(a) /\ Ordered(b)) =>
        /\ encA.err = NoError /\ encB.err = NoError
        /\ SeqLess(encA.bytes, encB.bytes) <=> TupleLess(a, b, nilFirst)
        /\ SeqLess(encB.bytes, encA.bytes) <=> TupleLess(b, a, nilFirst)
        /\ LET enc == ElementEncodings(a \o b)
           IN  \A i \in 1..Len(enc) : \A j \in 1..Len(enc) : ~ProperPrefix(enc[i], enc[j])

\* under nil-last, (8, nil) is above (8, -257): decided at the second position
C5_Witness ==
    /\ pc = "encoded" /\ ~nilFirst
    /\ a = <<IntValue(WordOf(8)), NilValue>>
    /\ b = <<IntValue(WordOf(8)), IntValue(WordOf(-257))>>
    /\ SeqLess(encB.bytes, encA.bytes)

(***************************************************************************)
(* State machine of the decoder on arbitrary buffers: every tag byte,      *)
(* followed by length-extension bytes and a payload of some length         *)
(***************************************************************************)
MaxTail == 9

\* payload lengths: short ones, those around the end of the direct band and
\* those around the least length of the 2-extension-byte band
TailLens == 0..MaxTail \cup 59..64 \cup 316..320

\* the bytes that follow the tag before the payload
Extensions == {<<>>, <<0>>, <<1>>, <<0, 0>>, <<0, 1>>}

\* the payload bytes
TailBytes == {0, 255}

RawBuffers ==
    {<<>>} \cup
    {<<k>> \o e \o Fill(c, n) : k \in Byte, e \in Extensions, c \in TailBytes, n \in TailLens}

InitDecode ==
    /\ pc = "start"
    /\ kind = "buffer"
    /\ a = <<>> /\ b = <<>> /\ nilFirst = TRUE
    /\ encA = <<>> /\ encB = <<>> /\ dec = NoResult
    /\ input \in RawBuffers
    /\ strings = FALSE /\ cur = <<>> /\ res = <<>> /\ ret = NoReturn
    /\ sent = InitSentinels /\ held = NoBuffer

CallDecodeBuffer ==
    /\ pc = "start" /\ kind = "buffer"
    /\ dec' = Decode(input)
    /\ pc' = "decoded"
    /\ UNCHANGED <<inVars, encA, encB, loopVars, heapVars>>

NextDecode == CallDecodeBuffer

SpecDecode == InitDecode /\ [][NextDecode]_vars

\* the tags of the decodable categories, as the claim lists them
KnownTags ==
    {0, 255, 14, 15} \cup 16..78 \cup 96..111 \cup 128..152 \cup 224..239

\* C6: on a non-empty buffer whose first byte is no tag of a decodable
\* category, Decode returns CorruptedBufferError and no value, whatever
\* bytes follow.
C6_UnknownTagRejected ==
    (pc = "decoded" /\ input # <<>> /\ input[1] \notin KnownTags) => dec = Corrupted

\* the number of bytes the documented layout makes the buffer's leading tag
\* (with its length-extension bytes) announce after the tag; 0 for a tag that
\* stands alone
Announced(buf) ==
    LET k == buf[1]
        rest == SliceFrom(buf, 1)
    IN  CASE k >= 16 /\ k <= 76 -> k - 16
          [] k = 77 -> IF Len(rest) < 1 THEN 1 ELSE 1 + 61 + rest[1]
          [] k = 78 -> IF Len(rest) < 2 THEN 2 ELSE 2 + 317 + rest[1] * 256 + rest[2]
          [] k >= 232 /\ k <= 239 -> k - 232 + 1
          [] k >= 96 /\ k <= 103 -> 8 - (k - 96)
          [] k >= 145 /\ k <= 152 -> k - 144
          [] OTHER -> 0

\* the buffer ends before the bytes its leading tag announces
Truncated(buf) == buf # <<>> /\ Len(buf) - 1 < Announced(buf)

\* C7: on a buffer whose leading tag (with its length-extension bytes)
\* announces more bytes than the buffer holds, or that ends before the
\* length-extension bytes, Decode returns (nil, nil, CorruptedBufferError);
\* Decode never slices past the end of the buffer; on the empty buffer it
\* returns EmptyBufferError.
C7_Truncation ==
    pc = "decoded" =>
        /\ Truncated(input) => dec = Corrupted
        /\ dec # Panic
        /\ input = <<>> => dec.err = EmptyBufferError

\* a 2-byte unsigned tag with one payload byte, and a 0x4E tag with one of
\* its two extension bytes, were both rejected
C7_Witness ==
    /\ pc = "decoded" /\ dec = Corrupted
    /\ input \in {<<146, 255>>, <<78, 0>>}

(***************************************************************************)
(* State machine of DecodeAll: one action per outcome of a loop iteration  *)
(***************************************************************************)
MaxBuf == 4

\* the bytes of the buffers: nil, true, a 1-byte string tag, a 1-byte
\* negative tag, a 1-byte unsigned tag, a 2-byte positive tag, a date tag
LoopBytes == {0, 15, 17, 103, 145, 233, 80}

LoopBuffers == UNION {[1..n -> LoopBytes] : n \in 0..MaxBuf}

InitDecodeAll ==
    /\ pc = "loop"
    /\ kind = "DecodeAll"
    /\ a = <<>> /\ b = <<>> /\ nilFirst = TRUE
    /\ encA = <<>> /\ encB = <<>> /\ dec = NoResult
    /\ input \in LoopBuffers
    /\ strings \in BOOLEAN
    /\ cur = input
    /\ res = <<>>
    /\ ret = NoReturn
    /\ sent = InitSentinels /\ held = NoBuffer

\* if err == EmptyBufferError { return res, nil }
DecodeAllReturn ==
    /\ pc = "loop"
    /\ Decode(cur).err = EmptyBufferError
    /\ ret' = [res |-> res, err |-> NoError]
    /\ pc' = "done"
    /\ UNCHANGED <<inVars, encA, encB, dec, input, strings, cur, res, heapVars>>

\* the error return handing back the values decoded so far
DecodeAllFail_KeepsPartial ==
    /\ pc = "loop"
    /\ Decode(cur).err \notin {EmptyBufferError, NoError}
    /\ ret' = [res |-> res, err |-> Decode(cur).err]
    /\ pc' = "done"
    /\ UNCHANGED <<inVars, encA, encB, dec, input, strings, cur, res, heapVars>>

\* if err != nil { return nil, err }
DecodeAllFail ==
    /\ pc = "loop"
    /\ Decode(cur).err \notin {EmptyBufferError, NoError}
    /\ ret' = [res |-> <<>>, err |-> Decode(cur).err]
    /\ pc' = "done"
    /\ UNCHANGED <<inVars, encA, encB, dec, input, strings, cur, res, heapVars>>

\* res = append(res, v); b = next
DecodeAllAppend ==
    /\ pc = "loop"
    /\ Decode(cur).err = NoError
    /\ res' = Append(res, AsString(strings, Decode(cur).val))
    /\ cur' = Decode(cur).next
    /\ UNCHANGED <<pc, inVars, encA, encB, dec, input, strings, ret, heapVars>>

NextDecodeAll == DecodeAllReturn \/ DecodeAllFail \/ DecodeAllAppend

\* DecodeAll is a sequential loop: an iteration that can run does run
SpecDecodeAll == InitDecodeAll /\ [][NextDecodeAll]_vars /\ WF_vars(NextDecodeAll)

\* s is a suffix of t
Suffix(s, t) == Len(s) <= Len(t) /\ SubSeq(t, Len(t) - Len(s) + 1, Len(t)) = s

\* what holds at every point of the loop of DecodeAll
DecodeAllInvariant ==
    /\ Suffix(cur, input)
    /\ Len(res) + Len(cur) <= Len(input)
    /\ pc = "loop" =>
          LET whole == DecodeAll(strings, input)
              rest == DecodeAll(strings, cur)
          IN  /\ rest.err = whole.err
              /\ whole.err = NoError => whole.res = res \o rest.res
    /\ pc = "done" =>
          /\ ret = DecodeAll(strings, input)
          /\ ret.err = NoError => (cur = <<>> /\ ret.res = res)
          /\ ret.err # NoError =>
                (ret.res = <<>> /\ ret.err = CorruptedBufferError /\ Decode(cur).err = ret.err)

\* every successful step consumes at least one byte of the cursor
DecodeAllProgress == [][cur' # cur => Len(cur') < Len(cur) /\ Len(res') = Len(res) + 1]_vars

\* C8: DecodeAll terminates, after at most len(b) successful Decode steps,
\* each leaving a strict suffix of the buffer; at the empty buffer it
\* returns the values decoded so far, in order, and no error; on any other
\* error it returns that error and no values; and DecodeAll of the
\* remainder of any successful step returns the tail of what DecodeAll of
\* the buffer returns.
C8_DecodeAllLoop ==
    /\ []DecodeAllInvariant
    /\ DecodeAllProgress
    /\ <>(pc = "done")

\* two values were decoded and returned from a buffer of three bytes
C8_Witness ==
    /\ pc = "done" /\ strings
    /\ input = <<17, 15, 15>>
    /\ ret = [res |-> <<StringValue(<<15>>), BoolValue(TRUE)>>, err |-> NoError]

\* a failing step after a successful one discarded the value decoded before it
C8_WitnessFail ==
    /\ pc = "done"
    /\ input = <<15, 80>>
    /\ res = <<BoolValue(TRUE)>>
    /\ ret = [res |-> <<>>, err |-> CorruptedBufferError]

(***************************************************************************)
(* State machine of the shared slices: a caller calls the encoders and may *)
(* write into the slice its last call returned.  held.base names the       *)
(* package-level slice whose array the returned slice shares, or "fresh"   *)
(* for a newly allocated array.                                            *)
(***************************************************************************)
MaxWrite == 2

\* the bytes the caller writes
WrittenBytes == {0, 15, 255}

\* the byte strings and value lists the caller passes
HeapStrings == {<<>>, <<1>>, Fill(1, 61), Fill(1, 317)}
HeapTuples ==
    {<<NilValue>>, <<BoolValue(TRUE)>>, <<BoolValue(FALSE), NilValue>>,
     <<BytesValue(Fill(1, 61))>>}

InitHeap ==
    /\ pc = "idle"
    /\ kind = "none"
    /\ a = NilValue /\ b = <<>> /\ nilFirst = TRUE
    /\ encA = <<>> /\ encB = <<>> /\ dec = NoResult
    /\ DecodeAllIdle
    /\ sent = InitSentinels
    /\ held = NoBuffer

\* b := EncodeBool(bv): returns True or False, no copy
HeapEncodeBool ==
    \E bv \in BOOLEAN :
        /\ kind' = "EncodeBool" /\ a' = BoolValue(bv)
        /\ held' = [base |-> IF bv THEN "True" ELSE "False", bytes |-> EncodeBool(bv)]
        /\ pc' = "returned"
        /\ UNCHANGED <<b, nilFirst, encA, encB, dec, loopVars, sent>>

\* b := EncodeNil(first): returns NilFirst or NilLast, no copy
HeapEncodeNil ==
    \E first \in BOOLEAN :
        /\ kind' = "EncodeNil" /\ a' = BoolValue(first)
        /\ held' = [base |-> IF first THEN "NilFirst" ELSE "NilLast",
                    bytes |-> EncodeNil(first)]
        /\ pc' = "returned"
        /\ UNCHANGED <<b, nilFirst, encA, encB, dec, loopVars, sent>>

\* b := EncodeBytes(bb): append to a one-byte literal, or to Bytes1 / Bytes2
\* whose capacity is 1, allocates a new array
HeapEncodeBytes ==
    \E bb \in HeapStrings :
        /\ kind' = "EncodeBytes" /\ a' = BytesValue(bb)
        /\ held' = [base |-> "fresh", bytes |-> EncodeBytes(bb)]
        /\ pc' = "returned"
        /\ UNCHANGED <<b, nilFirst, encA, encB, dec, loopVars, sent>>

\* b, _ := EncodeNils(first, values...): appends copies to a new slice
HeapEncodeNils ==
    \E first \in BOOLEAN, vs \in HeapTuples :
        /\ kind' = "EncodeNils" /\ a' = vs
        /\ nilFirst' = first
        /\ held' = [base |-> "fresh", bytes |-> EncodeNils(first, vs).bytes]
        /\ pc' = "returned"
        /\ UNCHANGED <<b, encA, encB, dec, loopVars, sent>>

\* b, _ := Encode(values...)
HeapEncode ==
    \E vs \in HeapTuples :
        /\ kind' = "Encode" /\ a' = vs
        /\ nilFirst' = TRUE
        /\ held' = [base |-> "fresh", bytes |-> Encode(vs).bytes]
        /\ pc' = "returned"
        /\ UNCHANGED <<b, encA, encB, dec, loopVars, sent>>

\* b[j] = w, in the caller: a write through the slice reaches the array it shares
CallerWrite ==
    \E j \in 1..MaxWrite, w \in WrittenBytes :
        /\ pc \in {"returned", "written"}
        /\ j <= Len(held.bytes)
        /\ w # held.bytes[j]
        /\ held' = [held EXCEPT !.bytes[j] = w]
        /\ sent' = IF held.base \in DOMAIN sent
                   THEN [sent EXCEPT ![held.base][j] = w]
                   ELSE sent
        /\ pc' = "written"
        /\ UNCHANGED <<inVars, encA, encB, dec, loopVars>>

NextHeap ==
    \/ HeapEncodeBool
    \/ HeapEncodeNil
    \/ HeapEncodeBytes
    \/ HeapEncodeNils
    \/ HeapEncode
    \/ CallerWrite

SpecHeap == InitHeap /\ [][NextHeap]_vars

\* C10: whatever encoder calls and caller writes into returned buffers came
\* before, the shared slices keep their initial bytes and a call returns
\* what it returns in a fresh program: EncodeBool(true) = [0x0F],
\* EncodeBool(false) = [0x0E], EncodeNil(true) = [0x00], EncodeNil(false) =
\* [0xFF], and EncodeBytes prefixes 0x4D or 0x4E beyond 60 bytes.
C10_SentinelsKeepBytes ==
    /\ sent = InitSentinels
    /\ (pc = "returned" /\ kind = "EncodeBool") =>
          held.bytes = (IF a.bool THEN <<15>> ELSE <<14>>)
    /\ (pc = "returned" /\ kind = "EncodeNil") =>
          held.bytes = (IF a.bool THEN <<0>> ELSE <<255>>)
    /\ (pc = "returned" /\ kind = "EncodeBytes" /\ Len(a.bytes) > 60) =>
          held.bytes[1] = (IF Len(a.bytes) <= 316 THEN 77 ELSE 78)

\* C10, the part about the encoders alone: no encoder call changes a shared
\* slice.
C10_EncodersLeaveSentinels == [][pc' = "returned" => sent' = sent]_vars

\* C10, the part about the returned values alone.
C10_FreshResults ==
    (pc = "returned" /\ kind = "EncodeBool") =>
        held.bytes = (IF a.bool THEN <<15>> ELSE <<14>>)

=============================================================================
